---- MODULE Spec2Model ----
(***************************************************************************)
(* DEADLINE content-enrichment pipeline: the detail-extraction endpoint    *)
(* (processEvent) and the two update-detection endpoints                   *)
(* (processEventUpdate, without and with status/source handling), run as   *)
(* concurrent request handlers over one events / event_details /           *)
(* event_updates store.  Every await of a handler that touches the store   *)
(* is one action; the external services (search, page fetch, LLM) answer   *)
(* nondeterministically.                                                   *)
(***************************************************************************)
EXTENDS Integers, Sequences, FiniteSets, TLC

----------------------------------------------------------------------------
(* Time.  An instant is a number of ticks since the epoch; a calendar day   *)
(* holds TicksPerDay instants, the first of which is midnight.              *)

TicksPerDay == 3

MaxUpdates == 2

MaxResults == 4

MaxPerDate == 3

Null == 0 - 1

Min(a, b) == IF a < b THEN a ELSE b

Instant(day, tod) == day * TicksPerDay + tod

DayOf(t) == t \div TicksPerDay

----------------------------------------------------------------------------
(* publishedDate strings of search results.  kind "missing": the field is   *)
(* absent or empty; "garbage": text Date cannot parse; "iso": an ISO-8601   *)
(* string YYYY-MM-DDTHH:MM..; "text": a parseable date-time string that     *)
(* is not ISO (e.g. "Jan 5, 2024 10:00:00") and holds no 'T'.               *)

NoDate == [kind |-> "missing", day |-> 0, tod |-> 0]

Garbage == [kind |-> "garbage", day |-> 0, tod |-> 0]

Iso(day, tod) == [kind |-> "iso", day |-> day, tod |-> tod]

Text(day, tod) == [kind |-> "text", day |-> day, tod |-> tod]

Result(link, pub) == [link |-> link, publishedDate |-> pub]

\* new Date(dateString).getTime(): the instant, or Null for NaN
DateParse(pub) ==
    IF pub.kind \in {"iso", "text"} THEN Instant(pub.day, pub.tod) ELSE Null

parseArticleDate_lenient(pub, clock) ==
    IF pub.kind = "missing" THEN Null ELSE DateParse(pub)

\* parseArticleDate: null for a missing, unparseable or future date
parseArticleDate(pub, clock) ==
    IF pub.kind = "missing" THEN Null
    ELSE IF DateParse(pub) = Null \/ DateParse(pub) > clock THEN Null
    ELSE DateParse(pub)

isArticleNewer_ge(articleDate, lastUpdated) ==
    IF articleDate = Null THEN FALSE ELSE articleDate >= lastUpdated

\* isArticleNewer: strictly after the frontier
isArticleNewer(articleDate, lastUpdated) ==
    IF articleDate = Null THEN FALSE ELSE articleDate > lastUpdated

\* searchResults.filter(...) of processEventUpdate
FilterNewer(results, lastUpdated, clock) ==
    SelectSeq(results, LAMBDA r:
        isArticleNewer(parseArticleDate(r.publishedDate, clock), lastUpdated))

\* dateKey: publishedDate.split('T')[0], or 'unknown'
DateKey(pub) ==
    CASE pub.kind = "missing" -> <<"unknown", 0, 0>>
      [] pub.kind = "iso" -> <<"date", pub.day, 0>>
      [] pub.kind = "text" -> <<"text", pub.day, pub.tod>>
      [] OTHER -> <<"garbage", 0, 0>>

Take(s, n) == SubSeq(s, 1, Min(n, Len(s)))

RECURSIVE KeysInOrder(_)
\* the keys of the Map dateGroups, in insertion order
KeysInOrder(results) ==
    IF results = <<>> THEN <<>>
    ELSE LET init == SubSeq(results, 1, Len(results) - 1)
             k == DateKey(results[Len(results)].publishedDate)
             ks == KeysInOrder(init)
         IN IF \E i \in 1..Len(ks) : ks[i] = k THEN ks ELSE Append(ks, k)

RECURSIVE ConcatGroups(_, _, _)
ConcatGroups(results, keys, maxPerDate) ==
    IF keys = <<>> THEN <<>>
    ELSE Take(SelectSeq(results, LAMBDA r: DateKey(r.publishedDate) = keys[1]),
              maxPerDate)
         \o ConcatGroups(results, Tail(keys), maxPerDate)

\* selectLinksToScan: the first maxPerDate results of every date group
selectLinksToScan(results, maxPerDate) ==
    ConcatGroups(results, KeysInOrder(results), maxPerDate)

----------------------------------------------------------------------------
(* The store, the clock and the request handlers.                           *)

VARIABLES
    now,            \* the server clock, an instant
    events,         \* the events row of event 1: last_updated, status
    event_details,  \* the event_details row of event 1, when it exists
    event_updates,  \* the event_updates rows, in insertion order
    runs,           \* the request handlers: their locals and position
    fpc, fResults, fLast, fNow, fFiltered, fSelected,
                    \* inputs and outputs of the filter/selection stage alone
    upc, uIn, uOut  \* input and output of one helper function run alone

vars == <<now, events, event_details, event_updates, runs,
          fpc, fResults, fLast, fNow, fFiltered, fSelected, upc, uIn, uOut>>

storeVars == <<events, event_details, event_updates>>

filterVars == <<fpc, fResults, fLast, fNow, fFiltered, fSelected>>

unitVars == <<upc, uIn, uOut>>

\* the two requests that may be in flight together
Runs == {1, 2}

Secret == "secret"

ApiKeys == {"", "wrong", Secret}

\* "" no event_id, "abc" not a number, "1" the stored event, "2" no such event
EventIds == {"", "abc", "1", "2"}

Methods == {"GET", "POST"}

\* the routes: detail extraction, update detection (has_new_updates
\* variant), update detection (status variant)
UpdateKinds == {"updates", "updates_status"}

Kinds == {"details"} \cup UpdateKinds

\* what the search provider can return for the event's query
Web ==
    << Result(1, Iso(1, 2)), Result(2, Iso(2, 1)), Result(3, NoDate),
       Result(4, Garbage) >>

\* the instants at which the clock is read
ClockInstants == {Instant(1, 1), Instant(1, 2), Instant(2, 1)}

RECURSIVE SubSeqs(_)
\* every subsequence of s, in s's order
SubSeqs(s) ==
    IF s = <<>> THEN {<<>>}
    ELSE LET rest == SubSeqs(Tail(s))
         IN rest \cup {<<Head(s)>> \o t : t \in rest}

SearchResponses == {s \in SubSeqs(Web) : Len(s) <= MaxResults}

SeqsUpTo(S, n) == UNION {[1..k -> S] : k \in 0..n}

Links(results) == [i \in 1..Len(results) |-> results[i].link]

----------------------------------------------------------------------------
(* The LLM's answer to the update-analysis prompt.                          *)

\* a day the LLM may name: a date of some article of Web
LLMDays == {Web[i].publishedDate.day : i \in {j \in 1..Len(Web) :
                Web[j].publishedDate.kind = "iso"}}

\* entries of the updates array; date 0, title "" or description "" is a
\* missing or empty field
LLMEntries ==
    {[date |-> d, title |-> "T", description |-> "D"] : d \in LLMDays}
    \cup {[date |-> 0, title |-> "T", description |-> "D"],
          [date |-> 1, title |-> "", description |-> "D"],
          [date |-> 1, title |-> "T", description |-> ""]}

LLMStatuses == {"", "Justice", "Pending"}

\* content: "none" no message content, "text" not JSON, "json" an object;
\* updates.isArray FALSE: the field is missing or no array
LLMResponses ==
    {[content |-> c, has_new_updates |-> FALSE, status |-> "",
      updates |-> [isArray |-> FALSE, items |-> <<>>]] : c \in {"none", "text"}}
    \cup {[content |-> "json", has_new_updates |-> h, status |-> s,
           updates |-> [isArray |-> a, items |-> u]] :
             h \in BOOLEAN, s \in LLMStatuses, a \in {TRUE},
             u \in SeqsUpTo(LLMEntries, MaxUpdates)}
    \cup {[content |-> "json", has_new_updates |-> TRUE, status |-> "Justice",
           updates |-> [isArray |-> FALSE, items |-> <<>>]]}

RECURSIVE Ascending(_)
Ascending(S) ==
    IF S = {} THEN <<>>
    ELSE LET m == CHOOSE x \in S : \A y \in S : x <= y
         IN <<m>> \o Ascending(S \ {m})

DaysOfResults(results) ==
    {results[i].publishedDate.day : i \in 1..Len(results)}

\* the answers that follow the prompt: one update per publication date of
\* the results given, oldest first, and a verdict
ObedientLLMResponses(results) ==
    LET days == Ascending(DaysOfResults(results))
    IN {[content |-> "json", has_new_updates |-> TRUE, status |-> s,
         updates |-> [isArray |-> TRUE, items |->
             [i \in 1..Len(days) |->
                 [date |-> days[i], title |-> "T", description |-> "D"]]]] :
          s \in {"Justice", "Injustice"}}

NoAnalysis == [isNull |-> TRUE, has_new_updates |-> FALSE, status |-> "",
               updates |-> <<>>]

ValidUpdates(items) ==
    SelectSeq(items, LAMBDA u: u.date # 0 /\ u.title # "" /\ u.description # "")

\* analyzeWithGroq of the has_new_updates variant
analyzeWithGroq_v1(resp) ==
    IF resp.content # "json" THEN NoAnalysis
    ELSE IF ~resp.has_new_updates \/ ~resp.updates.isArray
            \/ resp.updates.items = <<>>
            \/ ValidUpdates(resp.updates.items) = <<>>
         THEN [isNull |-> FALSE, has_new_updates |-> FALSE, status |-> "",
               updates |-> <<>>]
         ELSE [isNull |-> FALSE, has_new_updates |-> TRUE, status |-> "",
               updates |-> ValidUpdates(resp.updates.items)]

\* analyzeWithGroq of the status variant
analyzeWithGroq_v2(resp) ==
    IF resp.content # "json" THEN NoAnalysis
    ELSE IF ~resp.updates.isArray \/ resp.updates.items = <<>>
            \/ ValidUpdates(resp.updates.items) = <<>>
         THEN NoAnalysis
         ELSE [isNull |-> FALSE, has_new_updates |-> TRUE,
               status |-> IF resp.status = "" THEN "Injustice" ELSE resp.status,
               updates |-> ValidUpdates(resp.updates.items)]

analyzeWithGroq(kind, resp) ==
    IF kind = "updates" THEN analyzeWithGroq_v1(resp) ELSE analyzeWithGroq_v2(resp)

\* the test after the analysis: TRUE when the run stops there
AnalysisRejected(kind, analysis) ==
    IF kind = "updates"
    THEN analysis.isNull \/ ~analysis.has_new_updates \/ analysis.updates = <<>>
    ELSE analysis.isNull \/ analysis.updates = <<>>

\* the response of a run stopped after the analysis
AnalysisRejectedResponse(kind) ==
    IF kind = "updates"
    THEN [http |-> 200, outcome |-> "no_updates_after_analysis"]
    ELSE [http |-> 500, outcome |-> "analysis_failed"]

----------------------------------------------------------------------------
(* Request handlers.  A run's record holds the request, the handler's       *)
(* locals, its position pc and, once it has answered, the response.         *)
(* dbAnswer, startStore, after, luBefore and luWritten record what the      *)
(* handler met and did, for the properties below.                           *)

NoCalls == [db |-> 0, search |-> 0, fetch |-> 0, llm |-> 0, revalidate |-> 0]

NoStore == [last_updated |-> Null, status |-> "", exists |-> FALSE,
            sources |-> <<>>, rows |-> 0]

IdleRun ==
    [kind |-> "none", method |-> "", api_key |-> "", event_id |-> "",
     pc |-> "idle", http |-> 0, outcome |-> "",
     dbAnswer |-> "", lastUpdated |-> 0, clock |-> 0,
     searchResults |-> <<>>, filtered |-> <<>>, selected |-> <<>>,
     llmInput |-> <<>>, analysis |-> NoAnalysis, currentSources |-> <<>>,
     articles |-> <<>>, existing |-> FALSE,
     calls |-> NoCalls, startStore |-> NoStore, after |-> {},
     luBefore |-> Null, luWritten |-> Null, inserted |-> 0,
     srcWritten |-> FALSE, credentials |-> TRUE, llmItems |-> <<>>,
     llmAnswer |-> "", scraped |-> <<>>, pageFetch |-> <<>>,
     fullContent |-> <<>>, srcRead |-> FALSE]

StoreNow ==
    [last_updated |-> events.last_updated, status |-> events.status,
     exists |-> event_details.exists, sources |-> event_details.sources,
     rows |-> Len(event_updates)]

Done(r) == runs[r].pc = "done"

Respond(run, http, outcome) ==
    [run EXCEPT !.pc = "done", !.http = http, !.outcome = outcome]

Called(run, what) == [run EXCEPT !.calls[what] = @ + 1]

\* GET / POST of the update-detection routes, then the checks that open
\* processEventUpdate: 0 when the request passes them
UpdateBoundary(api_key, event_id) ==
    IF event_id = "" \/ api_key = "" THEN 400
    ELSE IF api_key # Secret THEN 401
    ELSE IF event_id = "abc" THEN 400
    ELSE 0

UpdateBoundaryOutcome(api_key, event_id) ==
    IF event_id = "" \/ api_key = "" THEN "missing_parameters"
    ELSE IF api_key # Secret THEN "unauthorized"
    ELSE "event_id_not_a_number"

\* no request has arrived yet
NoRequestYet == \A q \in Runs : runs[q].pc = "idle"

\* a request arrives at an update-detection route
UpdateArrive(r, kind, method, api_key, event_id) ==
    LET run == [IdleRun EXCEPT !.kind = kind, !.method = method,
                   !.api_key = api_key, !.event_id = event_id,
                   !.startStore = StoreNow,
                   !.after = {q \in Runs : Done(q)}]
        code == UpdateBoundary(api_key, event_id)
    IN runs' = [runs EXCEPT ![r] =
           IF code # 0
           THEN Respond(run, code, UpdateBoundaryOutcome(api_key, event_id))
           ELSE [run EXCEPT !.pc = "fetch_event"]]

\* the one request of a behaviour is any request to an update-detection
\* route
UpdateRequest(r) ==
    /\ NoRequestYet
    /\ r = 1
    /\ \E kind \in UpdateKinds, method \in Methods,
          api_key \in ApiKeys, event_id \in EventIds :
         UpdateArrive(r, kind, method, api_key, event_id)
    /\ UNCHANGED <<now, storeVars, filterVars, unitVars>>

\* a job's request for event 1 with the right key arrives, whatever the
\* other handler is doing
UpdateJobRequest(r) ==
    /\ runs[r].pc = "idle"
    /\ \E kind \in UpdateKinds : UpdateArrive(r, kind, "POST", Secret, "1")
    /\ UNCHANGED <<now, storeVars, filterVars, unitVars>>

\* what .single() on events answers for an event_id: the row, no row
\* (PGRST116), or another failure of the store
EventLookupAnswers(event_id) ==
    IF event_id = "1" THEN {"row", "failure"} ELSE {"no_rows", "failure"}

\* new Date(event.last_updated), or new Date(0) for a null last_updated
LastUpdatedDate(last_updated) ==
    IF last_updated = Null THEN 0 ELSE last_updated

\* processEventUpdate: the select on events
UpdateFetchEvent(r) ==
    /\ runs[r].kind \in UpdateKinds
    /\ runs[r].pc = "fetch_event"
    /\ \E answer \in EventLookupAnswers(runs[r].event_id) :
         LET run == [Called(runs[r], "db") EXCEPT !.dbAnswer = answer]
         IN runs' = [runs EXCEPT ![r] =
                IF answer # "row"
                THEN Respond(run, 404, "event_not_found")
                ELSE [run EXCEPT !.pc = "search",
                         !.lastUpdated = LastUpdatedDate(events.last_updated)]]
    /\ UNCHANGED <<now, storeVars, filterVars, unitVars>>

\* the selection stage: the status variant caps every date group, the
\* has_new_updates variant scans every filtered result
SelectStage(kind, filtered) ==
    IF kind = "updates_status" THEN selectLinksToScan(filtered, MaxPerDate)
    ELSE filtered

NothingNew_never(filtered) == FALSE

\* processEventUpdate: filteredResults.length === 0
NothingNew(filtered) == Len(filtered) = 0

\* processEventUpdate: searchGoogleForUpdates, the newer-than-frontier
\* filter, the early exit and the selection. searchGoogleForUpdates passes
\* process.env.GOOGLE_API_KEY and GOOGLE_SEARCH_ENGINE_ID on as they are:
\* when they are not set the request is refused and the catch returns [].
UpdateSearchFrom(r, configured, responses) ==
    /\ runs[r].kind \in UpdateKinds
    /\ runs[r].pc = "search"
    /\ \E credentials \in configured :
       \E results \in (IF credentials THEN responses ELSE {<<>>}) :
         LET filtered == FilterNewer(results, runs[r].lastUpdated, now)
             run == [Called(runs[r], "search") EXCEPT !.clock = now,
                        !.credentials = credentials,
                        !.searchResults = results, !.filtered = filtered]
         IN runs' = [runs EXCEPT ![r] =
                IF NothingNew(filtered)
                THEN Respond(run, 200, "no_new_articles")
                ELSE [run EXCEPT !.pc = "analyze",
                         !.selected = SelectStage(run.kind, filtered)]]
    /\ UNCHANGED <<now, storeVars, filterVars, unitVars>>

\* the provider returns any list of results; the credentials may be unset
UpdateSearch(r) == UpdateSearchFrom(r, BOOLEAN, SearchResponses)

\* the provider returns the same list at every search: the dated articles
UpdateSearchSame(r) == UpdateSearchFrom(r, {TRUE}, {SubSeq(Web, 1, 2)})

\* what the fetch of a selected result's page does: a non-OK status, a
\* thrown error or the abort after 10 s ("timeout"), or a page
FetchOutcomes == {"not_ok", "timeout", "page"}

\* fetchPageContent: '' unless the page was fetched, then its text
fetchPageContent(outcome) == IF outcome = "page" THEN "text" ELSE ""

resultsWithContent_fetchedOnly(selected, outcome) ==
    LET keep == SelectSeq([i \in 1..Len(selected) |-> i],
                          LAMBDA i: outcome[i] = "page")
    IN [j \in 1..Len(keep) |->
           [link |-> selected[keep[j]].link,
            fullContent |-> fetchPageContent(outcome[keep[j]])]]

\* resultsWithContent: Promise.all over the selected results, each with
\* the fullContent that fetchPageContent returns
resultsWithContent(selected, outcome) ==
    [i \in 1..Len(selected) |->
        [link |-> selected[i].link,
         fullContent |-> fetchPageContent(outcome[i])]]

\* processEventUpdate: fetchPageContent of every selected result (a failed
\* fetch gives empty content), then analyzeWithGroq and the test of its
\* result
UpdateAnalyzeFrom(r, responses, outcomes) ==
    /\ runs[r].kind \in UpdateKinds
    /\ runs[r].pc = "analyze"
    /\ \E resp \in responses :
       \E outcome \in [1..Len(runs[r].selected) -> outcomes] :
         LET analysis == analyzeWithGroq(runs[r].kind, resp)
             withContent == resultsWithContent(runs[r].selected, outcome)
             fetched == [runs[r] EXCEPT
                            !.calls.fetch = Len(runs[r].selected),
                            !.pageFetch = outcome,
                            !.llmInput =
                                [i \in 1..Len(withContent) |->
                                    withContent[i].link],
                            !.fullContent =
                                [i \in 1..Len(withContent) |->
                                    withContent[i].fullContent]]
             run == [Called(fetched, "llm") EXCEPT !.analysis = analysis,
                        !.llmItems = resp.updates.items]
             answer == AnalysisRejectedResponse(run.kind)
         IN runs' = [runs EXCEPT ![r] =
                IF AnalysisRejected(run.kind, analysis)
                THEN Respond(run, answer.http, answer.outcome)
                ELSE [run EXCEPT !.pc = "insert"]]
    /\ UNCHANGED <<now, storeVars, filterVars, unitVars>>

\* the LLM answers anything; every page is fetched
UpdateAnalyze(r) == UpdateAnalyzeFrom(r, LLMResponses, {"page"})

\* any page fetch may fail; the LLM follows the prompt or answers nothing
UpdateAnalyzeFetches(r) ==
    UpdateAnalyzeFrom(r,
        ObedientLLMResponses(runs[r].selected)
            \cup {resp \in LLMResponses : resp.content = "none"},
        FetchOutcomes)

\* the LLM does what the prompt asks and every page is fetched
UpdateAnalyzeObedient(r) ==
    UpdateAnalyzeFrom(r, ObedientLLMResponses(runs[r].selected), {"page"})

UpdateRecords_first(updates) ==
    [i \in 1..1 |->
        [event_id |-> 1, title |-> updates[i].title,
         description |-> updates[i].description,
         update_date |-> updates[i].date]]

\* updateRecords: one row per update of the analysis
UpdateRecords(updates) ==
    [i \in 1..Len(updates) |->
        [event_id |-> 1, title |-> updates[i].title,
         description |-> updates[i].description,
         update_date |-> updates[i].date]]

UpdateInsert_partial(r) ==
    /\ runs[r].kind \in UpdateKinds
    /\ runs[r].pc = "insert"
    /\ \E ok \in BOOLEAN :
         LET run == Called(runs[r], "db")
             records == UpdateRecords(run.analysis.updates)
         IN /\ event_updates' = event_updates \o records
            /\ runs' = [runs EXCEPT ![r] =
                   IF ok
                   THEN [run EXCEPT !.pc = "update_event",
                            !.inserted = Len(records)]
                   ELSE Respond(run, 500, "insert_failed")]
    /\ UNCHANGED <<now, events, event_details, filterVars, unitVars>>

\* processEventUpdate: the insert into event_updates
UpdateInsert(r) ==
    /\ runs[r].kind \in UpdateKinds
    /\ runs[r].pc = "insert"
    /\ \E ok \in BOOLEAN :
         LET run == Called(runs[r], "db")
             records == UpdateRecords(run.analysis.updates)
         IN IF ok
            THEN /\ event_updates' = event_updates \o records
                 /\ runs' = [runs EXCEPT ![r] =
                        [run EXCEPT !.pc = "update_event",
                            !.inserted = Len(records)]]
            ELSE /\ event_updates' = event_updates
                 /\ runs' = [runs EXCEPT ![r] =
                        Respond(run, 500, "insert_failed")]
    /\ UNCHANGED <<now, events, event_details, filterVars, unitVars>>

\* the instant a YYYY-MM-DD date denotes once stored in last_updated
DateInstant(day) == Instant(day, 0)

\* mostRecentUpdateDate: the date of the last update of the list
mostRecentUpdateDate(updates) == updates[Len(updates)].date

\* processEventUpdate: the update of events (its error is only logged)
UpdateEvent(r) ==
    /\ runs[r].kind \in UpdateKinds
    /\ runs[r].pc = "update_event"
    /\ \E ok \in BOOLEAN :
         LET run == Called(runs[r], "db")
             date == DateInstant(mostRecentUpdateDate(run.analysis.updates))
             next == IF run.kind = "updates"
                     THEN Respond(run, 200, "success")
                     ELSE [run EXCEPT !.pc = "read_details"]
         IN IF ok
            THEN /\ events' = [last_updated |-> date,
                               status |-> IF run.kind = "updates_status"
                                          THEN run.analysis.status
                                          ELSE events.status]
                 /\ runs' = [runs EXCEPT ![r] =
                        [next EXCEPT !.luBefore = events.last_updated,
                                     !.luWritten = date]]
            ELSE /\ events' = events
                 /\ runs' = [runs EXCEPT ![r] = next]
    /\ UNCHANGED <<now, event_details, event_updates, filterVars, unitVars>>

RECURSIVE Dedup(_)
\* Array.from(new Set(list)): the first occurrence of every element
Dedup(list) ==
    IF list = <<>> THEN <<>>
    ELSE LET init == Dedup(SubSeq(list, 1, Len(list) - 1))
             x == list[Len(list)]
         IN IF \E i \in 1..Len(init) : init[i] = x THEN init ELSE Append(init, x)

\* processEventUpdate (status variant): the select of event_details.sources;
\* existingDetails?.sources || [] is the empty list when the select fails
\* or finds no row
UpdateReadDetails(r) ==
    /\ runs[r].kind = "updates_status"
    /\ runs[r].pc = "read_details"
    /\ \E ok \in BOOLEAN :
         runs' = [runs EXCEPT ![r] =
             [Called(runs[r], "db") EXCEPT !.pc = "write_details",
                 !.srcRead = ok,
                 !.currentSources = IF ok /\ event_details.exists
                                    THEN event_details.sources ELSE <<>>]]
    /\ UNCHANGED <<now, storeVars, filterVars, unitVars>>

\* uniqueSources: the stored sources, then the links of the selected results
uniqueSources(currentSources, selected) ==
    Dedup(currentSources \o Links(selected))

\* processEventUpdate (status variant): the update of event_details (its
\* error is only logged; no row is touched when the event has none)
UpdateWriteDetails(r) ==
    /\ runs[r].kind = "updates_status"
    /\ runs[r].pc = "write_details"
    /\ \E ok \in BOOLEAN :
         /\ event_details' =
                IF ok /\ event_details.exists
                THEN [event_details EXCEPT !.sources =
                         uniqueSources(runs[r].currentSources, runs[r].selected)]
                ELSE event_details
         /\ runs' = [runs EXCEPT ![r] =
                [Called(runs[r], "db") EXCEPT !.pc = "revalidate",
                    !.srcWritten = ok]]
    /\ UNCHANGED <<now, events, event_updates, filterVars, unitVars>>

\* processEventUpdate (status variant): revalidateEventCache, then the
\* success response
UpdateRevalidate(r) ==
    /\ runs[r].kind = "updates_status"
    /\ runs[r].pc = "revalidate"
    /\ runs' = [runs EXCEPT ![r] =
           Respond(Called(runs[r], "revalidate"), 200, "success")]
    /\ UNCHANGED <<now, storeVars, filterVars, unitVars>>

----------------------------------------------------------------------------
(* The detail-extraction route.                                             *)

\* GET checks the api_key, then the event_id; POST checks the event_id only
DetailBoundary(method, api_key, event_id) ==
    IF method = "GET" /\ (api_key = "" \/ api_key # Secret) THEN 401
    ELSE IF event_id = "" THEN 400
    ELSE 0

DetailArrive(r, method, api_key, event_id) ==
    LET run == [IdleRun EXCEPT !.kind = "details", !.method = method,
                   !.api_key = api_key, !.event_id = event_id,
                   !.startStore = StoreNow,
                   !.after = {q \in Runs : Done(q)}]
        code == DetailBoundary(method, api_key, event_id)
    IN runs' = [runs EXCEPT ![r] =
           IF code = 401 THEN Respond(run, 401, "unauthorized")
           ELSE IF code = 400 THEN Respond(run, 400, "event_id_required")
           ELSE [run EXCEPT !.pc = "fetch_event"]]

\* the one request of a behaviour is any request to the detail route
DetailRequest(r) ==
    /\ NoRequestYet
    /\ r = 1
    /\ \E method \in Methods, api_key \in ApiKeys, event_id \in EventIds :
         DetailArrive(r, method, api_key, event_id)
    /\ UNCHANGED <<now, storeVars, filterVars, unitVars>>

\* a job's request for event 1 with the right key arrives, whatever the
\* other handler is doing
DetailJobRequest(r) ==
    /\ runs[r].pc = "idle"
    /\ DetailArrive(r, "GET", Secret, "1")
    /\ UNCHANGED <<now, storeVars, filterVars, unitVars>>

\* fetchEventFromDatabase: any error of the select is thrown, and the
\* route's catch answers 500
DetailFetchEvent(r) ==
    /\ runs[r].kind = "details"
    /\ runs[r].pc = "fetch_event"
    /\ \E answer \in EventLookupAnswers(runs[r].event_id) :
         LET run == [Called(runs[r], "db") EXCEPT !.dbAnswer = answer]
         IN runs' = [runs EXCEPT ![r] =
                IF answer # "row"
                THEN Respond(run, 500, "event_not_found")
                ELSE [run EXCEPT !.pc = "search"]]
    /\ UNCHANGED <<now, storeVars, filterVars, unitVars>>

\* what the search returns for the detail extraction
DetailWeb == SubSeq(Web, 1, 2)

\* articlesToScrape: the cap on the filtered results that are fetched
ScrapeCap == 18

\* successfulArticles: the content length an article must exceed
MinContent == 100

\* articlesToScrape = filteredResults.slice(0, 18)
articlesToScrape(results) == Take(results, ScrapeCap)

\* scrapeArticle on one URL: the fetch throws, answers a non-OK status, is
\* aborted by the 12 s timer (all three return null), or answers a page
\* from which extractArticleContent takes content of the given length
ScrapeOutcomes ==
    {[status |-> st, length |-> 0] : st \in {"threw", "not_ok", "timeout"}}
        \cup {[status |-> "ok", length |-> n] : n \in {MinContent, MinContent + 1}}

\* scrapeArticle returns null
ScrapedNull(outcome) == outcome.status # "ok"

successfulArticles_untilFailure(results, outcome) ==
    LET n == Len(results)
        stop == IF \E i \in 1..n : ScrapedNull(outcome[i])
                THEN (CHOOSE i \in 1..n :
                        /\ ScrapedNull(outcome[i])
                        /\ \A j \in 1..(i - 1) : ~ScrapedNull(outcome[j])) - 1
                ELSE n
        keep == SelectSeq([i \in 1..stop |-> i],
                          LAMBDA i: outcome[i].length > MinContent)
    IN [j \in 1..Len(keep) |-> results[keep[j]].link]

\* successfulArticles: Promise.allSettled over every URL, then fulfilled,
\* non-null, content longer than 100
successfulArticles(results, outcome) ==
    LET keep == SelectSeq([i \in 1..Len(results) |-> i],
                          LAMBDA i: /\ ~ScrapedNull(outcome[i])
                                    /\ outcome[i].length > MinContent)
    IN [j \in 1..Len(keep) |-> results[keep[j]].link]

NoArticles_never(articles) == FALSE

\* processEvent: !scrapedData.articles || scrapedData.articles.length === 0
NoArticles(articles) == Len(articles) = 0

\* searchGoogleAndScrape: !API_KEY || !SEARCH_ENGINE_ID
CredentialsMissing(credentials) == ~credentials

\* processEvent: searchGoogleAndScrape, which throws before any request
\* when the credentials are not set, then the throw when nothing was
\* scraped
DetailSearchScrapeFrom(r, configured) ==
    /\ runs[r].kind = "details"
    /\ runs[r].pc = "search"
    /\ \E credentials \in configured :
         IF CredentialsMissing(credentials)
         THEN runs' = [runs EXCEPT ![r] =
                  Respond([runs[r] EXCEPT !.credentials = credentials], 500,
                          "Google API credentials not configured")]
         ELSE \E results \in SubSeqs(DetailWeb) :
              LET toScrape == articlesToScrape(results)
              IN \E outcome \in [1..Len(toScrape) -> ScrapeOutcomes] :
                LET articles == successfulArticles(toScrape, outcome)
                    run == [runs[r] EXCEPT !.calls.search = 1,
                               !.calls.fetch = Len(toScrape),
                               !.searchResults = results,
                               !.scraped = outcome,
                               !.articles = articles]
                IN runs' = [runs EXCEPT ![r] =
                       IF NoArticles(articles)
                       THEN Respond(run, 500, "No articles found or scraped")
                       ELSE [run EXCEPT !.pc = "llm"]]
    /\ UNCHANGED <<now, storeVars, filterVars, unitVars>>

\* the credentials may be unset
DetailSearchScrape(r) == DetailSearchScrapeFrom(r, BOOLEAN)

\* the credentials are set
DetailSearchScrapeConfigured(r) == DetailSearchScrapeFrom(r, {TRUE})

\* the LLM's answer to the extraction prompt: no content ("none"), text
\* without a brace ("no_json"), text with '{' but no '}' ("open_only"), with
\* '}' but no '{' ("close_only"), text whose slice from the first '{' to
\* the last '}' does not parse ("bad_json"), text whose slice parses ("json")
DetailLLMAnswers ==
    {"none", "no_json", "open_only", "close_only", "bad_json", "json"}

\* cleanedResponse.indexOf('{') !== -1
HasOpenBrace(answer) == answer \in {"open_only", "bad_json", "json"}

\* cleanedResponse.lastIndexOf('}') + 1 !== 0
HasCloseBrace(answer) == answer \in {"close_only", "bad_json", "json"}

isValidJSON_always(answer) == TRUE

\* isValidJSON(jsonString), jsonString being the slice
isValidJSON(answer) == answer = "json"

\* processArticlesWithGroq returns parsedData; every other path throws
GroqReturns(answer) ==
    /\ answer # "none"
    /\ HasOpenBrace(answer) /\ HasCloseBrace(answer)
    /\ isValidJSON(answer)

\* processEvent: processArticlesWithGroq, which throws unless the answer
\* holds a JSON object that parses
DetailLLM(r) ==
    /\ runs[r].kind = "details"
    /\ runs[r].pc = "llm"
    /\ \E answer \in DetailLLMAnswers :
         LET run == [Called(runs[r], "llm") EXCEPT !.llmAnswer = answer]
         IN runs' = [runs EXCEPT ![r] =
                IF GroqReturns(answer)
                THEN [run EXCEPT !.pc = "save_check"]
                ELSE Respond(run, 500, "llm_failed")]
    /\ UNCHANGED <<now, storeVars, filterVars, unitVars>>

\* saveEventDetails: the select that looks for an existing row
DetailSaveCheck(r) ==
    /\ runs[r].kind = "details"
    /\ runs[r].pc = "save_check"
    /\ runs' = [runs EXCEPT ![r] =
           [Called(runs[r], "db") EXCEPT !.pc = "save_write",
               !.existing = event_details.exists]]
    /\ UNCHANGED <<now, storeVars, filterVars, unitVars>>

\* saveEventDetails: the update or insert of the row, sources being the
\* urls of the scraped articles; an error is thrown
DetailSaveWrite(r) ==
    /\ runs[r].kind = "details"
    /\ runs[r].pc = "save_write"
    /\ \E ok \in BOOLEAN :
         IF ok
         THEN /\ event_details' = [exists |-> TRUE,
                                   sources |-> runs[r].articles]
              /\ runs' = [runs EXCEPT ![r] =
                     [Called(runs[r], "db") EXCEPT !.pc = "timestamp"]]
         ELSE /\ event_details' = event_details
              /\ runs' = [runs EXCEPT ![r] =
                     Respond(Called(runs[r], "db"), 500, "save_failed")]
    /\ UNCHANGED <<now, events, event_updates, filterVars, unitVars>>

\* updateEventTimestamp: last_updated becomes the current instant (an
\* error is only logged), then the success response
DetailTimestamp(r) ==
    /\ runs[r].kind = "details"
    /\ runs[r].pc = "timestamp"
    /\ \E ok \in BOOLEAN :
         events' = IF ok THEN [events EXCEPT !.last_updated = now] ELSE events
    /\ runs' = [runs EXCEPT ![r] =
           Respond(Called(runs[r], "db"), 200, "success")]
    /\ UNCHANGED <<now, event_details, event_updates, filterVars, unitVars>>

----------------------------------------------------------------------------

\* time passes
Tick ==
    /\ \E t \in ClockInstants : t > now /\ now' = t
    /\ UNCHANGED <<storeVars, runs, filterVars, unitVars>>

FreshStore ==
    [now |-> Instant(1, 1),
     events |-> [last_updated |-> Null, status |-> "Injustice"],
     event_details |-> [exists |-> FALSE, sources |-> <<>>],
     event_updates |-> <<>>]

\* the store after a detail extraction at Instant(1, 1) that scraped link 1
DetailedStore ==
    [now |-> Instant(1, 1),
     events |-> [last_updated |-> Instant(1, 1), status |-> "Injustice"],
     event_details |-> [exists |-> TRUE, sources |-> <<1>>],
     event_updates |-> <<>>]

\* DetailedStore after an update detection at Instant(1, 2) that found
\* link 1 and recorded one update dated day 1
UpdatedStore ==
    [now |-> Instant(1, 2),
     events |-> [last_updated |-> Instant(1, 0), status |-> "Justice"],
     event_details |-> [exists |-> TRUE, sources |-> <<1>>],
     event_updates |-> <<[event_id |-> 1, title |-> "T", description |-> "D",
                          update_date |-> 1]>>]

StartsFrom(store) ==
    /\ now = store.now
    /\ events = store.events
    /\ event_details = store.event_details
    /\ event_updates = store.event_updates
    /\ runs = [r \in Runs |-> IdleRun]
    /\ fpc = "input"
    /\ fResults = <<>>
    /\ fLast = 0
    /\ fNow = 0
    /\ fFiltered = <<>>
    /\ fSelected = <<>>
    /\ upc = "input"
    /\ uIn = <<>>
    /\ uOut = <<>>

\* one request, against any of three states of the store
Init == \E store \in {FreshStore, DetailedStore, UpdatedStore} : StartsFrom(store)

Step(r) ==
    \/ UpdateFetchEvent(r)
    \/ UpdateSearch(r)
    \/ UpdateAnalyze(r)
    \/ UpdateInsert(r)
    \/ UpdateEvent(r)
    \/ UpdateReadDetails(r)
    \/ UpdateWriteDetails(r)
    \/ UpdateRevalidate(r)
    \/ DetailFetchEvent(r)
    \/ DetailSearchScrape(r)
    \/ DetailLLM(r)
    \/ DetailSaveCheck(r)
    \/ DetailSaveWrite(r)
    \/ DetailTimestamp(r)

Next ==
    \/ Tick
    \/ \E r \in Runs : UpdateRequest(r)
    \/ \E r \in Runs : DetailRequest(r)
    \/ \E r \in Runs : Step(r)

Spec == Init /\ [][Next]_vars

\* one update-detection request in which the page fetches may fail
StepFetches(r) ==
    \/ UpdateFetchEvent(r)
    \/ UpdateSearch(r)
    \/ UpdateAnalyzeFetches(r)
    \/ UpdateInsert(r)
    \/ UpdateEvent(r)
    \/ UpdateReadDetails(r)
    \/ UpdateWriteDetails(r)
    \/ UpdateRevalidate(r)

NextFetches ==
    \/ Tick
    \/ \E r \in Runs : UpdateRequest(r)
    \/ \E r \in Runs : StepFetches(r)

SpecFetches == Init /\ [][NextFetches]_vars

\* two jobs, one after the other or interleaved, from the fresh store
InitJobs == StartsFrom(FreshStore)

StepJobs(r) ==
    \/ UpdateFetchEvent(r)
    \/ UpdateSearchSame(r)
    \/ UpdateAnalyzeObedient(r)
    \/ UpdateInsert(r)
    \/ UpdateEvent(r)
    \/ UpdateReadDetails(r)
    \/ UpdateWriteDetails(r)
    \/ UpdateRevalidate(r)
    \/ DetailFetchEvent(r)
    \/ DetailSearchScrapeConfigured(r)
    \/ DetailLLM(r)
    \/ DetailSaveCheck(r)
    \/ DetailSaveWrite(r)
    \/ DetailTimestamp(r)

NextJobs ==
    \/ Tick
    \/ \E r \in Runs : UpdateJobRequest(r)
    \/ \E r \in Runs : DetailJobRequest(r)
    \/ \E r \in Runs : StepJobs(r)

SpecJobs == InitJobs /\ [][NextJobs]_vars

\* two update-detection jobs, one after the other or interleaved, on an
\* event that has its details
StepMerge(r) ==
    \/ UpdateFetchEvent(r)
    \/ UpdateSearchSame(r)
    \/ UpdateAnalyzeObedient(r)
    \/ UpdateInsert(r)
    \/ UpdateEvent(r)
    \/ UpdateReadDetails(r)
    \/ UpdateWriteDetails(r)
    \/ UpdateRevalidate(r)

NextMerge ==
    \/ Tick
    \/ \E r \in Runs : UpdateJobRequest(r)
    \/ \E r \in Runs : StepMerge(r)

SpecMerge == StartsFrom(DetailedStore) /\ [][NextMerge]_vars

----------------------------------------------------------------------------
(* The filter and the selection stage on their own, over result lists with  *)
(* every kind of publishedDate.                                             *)

FilterWeb ==
    << Result(1, Iso(1, 1)), Result(2, Iso(2, 1)), Result(3, Iso(1, 2)),
       Result(4, Text(1, 1)), Result(5, Iso(1, 1)), Result(6, NoDate),
       Result(7, Iso(1, 2)), Result(8, Garbage), Result(9, Text(1, 2)),
       Result(10, Iso(0, 2)) >>

FilterFrontiers == {0, Instant(1, 0), Instant(1, 1)}

FilterClocks == {Instant(1, 2), Instant(2, 1)}

\* the search returns a list; the event's frontier and the clock are read
FilterInput ==
    /\ fpc = "input"
    /\ \E results \in {s \in SubSeqs(FilterWeb) : Len(s) <= MaxResults},
          last \in FilterFrontiers, clock \in FilterClocks :
         /\ fResults' = results
         /\ fLast' = last
         /\ fNow' = clock
    /\ fpc' = "filter"
    /\ UNCHANGED <<now, storeVars, runs, fFiltered, fSelected,
                 unitVars>>

\* searchResults.filter(...)
FilterApply ==
    /\ fpc = "filter"
    /\ fFiltered' = FilterNewer(fResults, fLast, fNow)
    /\ fpc' = "select"
    /\ UNCHANGED <<now, storeVars, runs, fResults, fLast, fNow, fSelected,
                 unitVars>>

\* selectLinksToScan(filteredResults, 3)
SelectApply ==
    /\ fpc = "select"
    /\ fSelected' = selectLinksToScan(fFiltered, MaxPerDate)
    /\ fpc' = "done"
    /\ UNCHANGED <<now, storeVars, runs, fResults, fLast, fNow, fFiltered,
                 unitVars>>

NextFilter == FilterInput \/ FilterApply \/ SelectApply

SpecFilter == InitJobs /\ [][NextFilter]_vars

----------------------------------------------------------------------------
(* processArticlesWithGroq on its own: the required fields of the parsed    *)
(* answer.                                                                  *)

requiredFields == <<"location", "details", "accused", "victims", "timeline">>

FieldNames == {requiredFields[i] : i \in 1..Len(requiredFields)}

\* EVENT_DETAILS_TEMPLATE: the fields declared as arrays
TemplateIsArray(field) == field \in {"accused", "victims", "timeline"}

\* what a field of the parsed JSON object may hold; "absent" is a key that
\* the object does not have
FieldValues == {"absent", "null", "text", "list"}

ParsedAnswers == [FieldNames -> FieldValues]

EmptyDefault_string(field) == "empty_string"

\* Array.isArray(EVENT_DETAILS_TEMPLATE[field]) ? [] : ''
EmptyDefault(field) ==
    IF TemplateIsArray(field) THEN "empty_list" ELSE "empty_string"

\* the loop over requiredFields: if (!(field in parsedData)) ...
FillRequired(parsedData) ==
    [field \in FieldNames |->
        IF parsedData[field] = "absent" THEN EmptyDefault(field)
        ELSE parsedData[field]]

\* JSON.parse(jsonString)
SchemaInput ==
    /\ upc = "input"
    /\ \E parsedData \in ParsedAnswers : uIn' = parsedData
    /\ upc' = "fill"
    /\ UNCHANGED <<now, storeVars, runs, filterVars, uOut>>

\* the backfill, then return parsedData
SchemaFill ==
    /\ upc = "fill"
    /\ uOut' = FillRequired(uIn)
    /\ upc' = "done"
    /\ UNCHANGED <<now, storeVars, runs, filterVars, uIn>>

NextSchema == SchemaInput \/ SchemaFill

SpecSchema == InitJobs /\ [][NextSchema]_vars

----------------------------------------------------------------------------
(* The two search functions on their own, over provider answers that hold   *)
(* results of excluded sites.                                               *)

MaxItems == 3

excludeDomains ==
    {"reddit.com", "twitter.com", "facebook.com", "youtube.com",
     "instagram.com", "tiktok.com", "pinterest.com"}

\* String.prototype.toLowerCase on the host names used here
toLowerCase(host) == IF host = "Twitter.com" THEN "twitter.com" ELSE host

\* String.prototype.includes on the host names used here
includes(host, excluded) ==
    \/ host = excluded
    \/ host = "old.reddit.com" /\ excluded = "reddit.com"

\* an item of the provider's answer: the host of its link, its displayLink
\* and whether it has a title and a snippet
Item(link, host, displayLink, titled) ==
    [link |-> link, host |-> host, displayLink |-> displayLink,
     titled |-> titled]

ProviderItems ==
    { Item(1, "news.example", "news.example", TRUE),
      Item(2, "reddit.com", "reddit.com", TRUE),
      Item(3, "old.reddit.com", "old.reddit.com", TRUE),
      Item(4, "Twitter.com", "", TRUE),
      Item(5, "news.example", "youtube.com", TRUE),
      Item(6, "blog.example", "blog.example", FALSE) }

ProviderAnswers == UNION {[1..n -> ProviderItems] : n \in 0..MaxItems}

\* isExcluded of searchGoogleAndScrape
isExcluded(result) ==
    \E excluded \in excludeDomains :
        \/ includes(toLowerCase(result.displayLink), excluded)
        \/ includes(toLowerCase(result.host), excluded)

\* index !== self.findIndex(r => r.link === result.link)
isDuplicate(self, index) ==
    \E j \in 1..(index - 1) : self[j].link = self[index].link

RECURSIVE KeepFrom(_, _, _)
\* Array.prototype.filter from index to the end, keep being the indices
\* for which the callback returns true
KeepFrom(self, index, keep) ==
    IF index > Len(self) THEN <<>>
    ELSE (IF index \in keep THEN <<self[index]>> ELSE <<>>)
             \o KeepFrom(self, index + 1, keep)

\* searchGoogleAndScrape: allResults.filter(...); a missing title or snippet
\* was replaced by a default text and so never drops a result
filteredResults(allResults) ==
    KeepFrom(allResults, 1,
        {index \in 1..Len(allResults) :
            ~isDuplicate(allResults, index) /\ ~isExcluded(allResults[index])})

\* searchGoogleForUpdates: items.filter(item => item.title && item.snippet)
searchGoogleForUpdates(items) ==
    KeepFrom(items, 1, {index \in 1..Len(items) : items[index].titled})

\* the provider answers a search
SearchInput ==
    /\ upc = "input"
    /\ \E items \in ProviderAnswers, fn \in {"details", "updates"} :
         uIn' = [fn |-> fn, items |-> items]
    /\ upc' = "search"
    /\ UNCHANGED <<now, storeVars, runs, filterVars, uOut>>

\* the search function turns the answer into its result list
SearchApply ==
    /\ upc = "search"
    /\ uOut' = IF uIn.fn = "details" THEN filteredResults(uIn.items)
               ELSE searchGoogleForUpdates(uIn.items)
    /\ upc' = "done"
    /\ UNCHANGED <<now, storeVars, runs, filterVars, uIn>>

NextSearch == SearchInput \/ SearchApply

SpecSearch == InitJobs /\ [][NextSearch]_vars

----------------------------------------------------------------------------
(* extractArticleContent on its own. A page is described by what each of    *)
(* the extractor's patterns finds in it: the length of the text of the      *)
(* longest article/main/content-labelled div match, of the joined           *)
(* paragraphs, of the joined plain divs (Null when the pattern matches      *)
(* nothing) and of the meta description (0 when there is none).             *)

\* content.length < 200: the text so far does not suffice
Sufficient == 200

\* content.length < 100: the meta description replaces the text
MetaBelow == 100

\* content.substring(0, 4000)
ContentCap == 4000

MatchLengths == {Null, 50, 150, 250, 4500}

MetaLengths == {0, 50, 150, 250}

Pages ==
    [article : MatchLengths, p : MatchLengths, div : MatchLengths,
     meta : MetaLengths]

Content(from, len) == [from |-> from, len |-> len]

Insufficient_always(content) == TRUE

\* !content || content.length < 200
Insufficient(content) == content.len < Sufficient

extractArticleContent(page) ==
    LET fromArticle == IF page.article # Null
                       THEN Content("article", page.article)
                       ELSE Content("none", 0)
        fromP == IF Insufficient(fromArticle) /\ page.p # Null
                 THEN Content("p", page.p)
                 ELSE fromArticle
        fromDiv == IF Insufficient(fromP) /\ page.div # Null
                       /\ page.div > fromP.len
                   THEN Content("div", page.div)
                   ELSE fromP
        fromMeta == IF fromDiv.len < MetaBelow
                    THEN Content("meta", page.meta)
                    ELSE fromDiv
    IN Content(fromMeta.from, Min(fromMeta.len, ContentCap))

\* scrapeArticle: the page has been fetched
ExtractInput ==
    /\ upc = "input"
    /\ \E page \in Pages : uIn' = page
    /\ upc' = "extract"
    /\ UNCHANGED <<now, storeVars, runs, filterVars, uOut>>

\* scrapeArticle: extractArticleContent(html, url)
ExtractApply ==
    /\ upc = "extract"
    /\ uOut' = extractArticleContent(uIn)
    /\ upc' = "done"
    /\ UNCHANGED <<now, storeVars, runs, filterVars, uIn>>

NextExtract == ExtractInput \/ ExtractApply

SpecExtract == InitJobs /\ [][NextExtract]_vars

----------------------------------------------------------------------------
(* Remote services that never answer.                                      *)

\* the awaits of a run that carry no cancellation signal: the web search
\* page fetch of searchGoogleAndScrape and customSearch.cse.list ("search"),
\* the Groq completions ("llm", "analyze"), and the fetch of
\* revalidateEventCache ("revalidate"); scrapeArticle, searchImages and
\* fetchPageContent pass an abort signal and are not among them
UntimedCalls(kind) ==
    IF kind = "details" THEN {"search", "llm"}
    ELSE IF kind = "updates_status" THEN {"search", "analyze", "revalidate"}
    ELSE {"search", "analyze"}

\* the remote end of such a call accepts the request and never answers:
\* the await never settles and the handler stays where it is
RemoteNeverAnswers(r) ==
    /\ runs[r].pc \in UntimedCalls(runs[r].kind)
    /\ runs' = [runs EXCEPT ![r].pc = "pending"]
    /\ UNCHANGED <<now, storeVars, filterVars, unitVars>>

NextLive ==
    \/ Next
    \/ \E r \in Runs : RemoteNeverAnswers(r)

\* a handler that can take its next step takes it
SpecLive ==
    Init /\ [][NextLive]_vars /\ \A r \in Runs : WF_vars(Step(r))

----------------------------------------------------------------------------
(* The page loop of searchGoogleAndScrape on its own.                      *)

\* for (let page = 1; page <= 3; page++)
PageCount == 3

\* what the provider does with the request for one page: the fetch throws,
\* the status is not OK, the body is an HTML page, the body is not JSON,
\* the JSON holds an error object, the JSON holds no items, or it holds
\* the given items
PageFailures == {"threw", "not_ok", "html", "invalid_json", "error_object"}

PageItemLists ==
    { <<Item(1, "news.example", "news.example", TRUE)>>,
      <<Item(1, "news.example", "news.example", TRUE),
        Item(2, "reddit.com", "reddit.com", TRUE)>>,
      <<Item(7, "blog.example", "blog.example", TRUE)>> }

PageAnswers ==
    {[kind |-> k, items |-> <<>>] : k \in PageFailures \cup {"no_items"}}
        \cup {[kind |-> "items", items |-> l] : l \in PageItemLists}

\* the page's iteration ends in a continue before allResults.push
PageSkipped(answer) == answer.kind \in PageFailures

\* pageResults: webData.items?.map(...) || []
pageResults(answer) == IF answer.kind = "items" THEN answer.items ELSE <<>>

AfterSkip_break(page) == PageCount + 1

\* continue: the loop goes on with the next page
AfterSkip(page) == page + 1

\* the provider's behaviour for the three pages of one search
PagesInput ==
    /\ upc = "input"
    /\ \E answers \in [1..PageCount -> PageAnswers] : uIn' = answers
    /\ uOut' = [page |-> 1, requested |-> <<>>, allResults |-> <<>>,
                results |-> <<>>]
    /\ upc' = "pages"
    /\ UNCHANGED <<now, storeVars, runs, filterVars>>

\* one iteration of the loop: the request for the page and what is done
\* with its answer
PageRequest ==
    /\ upc = "pages"
    /\ uOut.page <= PageCount
    /\ LET page == uOut.page
           answer == uIn[page]
       IN uOut' = [uOut EXCEPT
              !.requested = Append(@, page),
              !.allResults = IF PageSkipped(answer) THEN @
                             ELSE @ \o pageResults(answer),
              !.page = IF PageSkipped(answer) THEN AfterSkip(page)
                       ELSE page + 1]
    /\ UNCHANGED <<now, storeVars, runs, filterVars, upc, uIn>>

\* after the loop: the duplicate and exclusion filter gives the results
PagesReturn ==
    /\ upc = "pages"
    /\ uOut.page > PageCount
    /\ uOut' = [uOut EXCEPT !.results = filteredResults(uOut.allResults)]
    /\ upc' = "done"
    /\ UNCHANGED <<now, storeVars, runs, filterVars, uIn>>

NextPages == PagesInput \/ PageRequest \/ PagesReturn

SpecPages == InitJobs /\ [][NextPages]_vars

----------------------------------------------------------------------------
(* Properties.                                                              *)

UpdateRun(r) == runs[r].kind \in UpdateKinds

DetailRun(r) == runs[r].kind = "details"

Succeeded(r) == Done(r) /\ runs[r].outcome = "success"

\* r ran with no other handler in flight at any time of its run
Alone(r) ==
    \A q \in Runs \ {r} :
        runs[q].pc = "idle" \/ q \in runs[r].after \/ r \in runs[q].after

MaxOf(S) == CHOOSE x \in S : \A y \in S : y <= x

UpdateDates(updates) == {updates[i].date : i \in 1..Len(updates)}

InSeq(x, seq) == \E i \in 1..Len(seq) : seq[i] = x

\* C5, as amended: the filter keeps, in order, exactly the results whose
\* publishedDate parses to an instant strictly after last_updated and not
\* after the current instant; a missing or unparseable date, a date at or
\* before last_updated and a date in the future are all left out.
C5_FilterKeepsNewerNotFuture ==
    fpc \in {"select", "done"} =>
        fFiltered = SelectSeq(fResults, LAMBDA r:
            /\ r.publishedDate.kind \in {"iso", "text"}
            /\ r.publishedDate.day * TicksPerDay + r.publishedDate.tod > fLast
            /\ r.publishedDate.day * TicksPerDay + r.publishedDate.tod <= fNow)

\* C5 witness: one filter run that kept a result after the frontier and
\* dropped one at the frontier, one without a date and one unparseable.
C5_Witness ==
    /\ fpc = "done"
    /\ \E i, j, k, l \in 1..Len(fResults) :
         /\ InSeq(fResults[i], fFiltered)
         /\ DateParse(fResults[i].publishedDate) > fLast
         /\ DateParse(fResults[j].publishedDate) = fLast
         /\ ~InSeq(fResults[j], fFiltered)
         /\ fResults[k].publishedDate.kind = "missing"
         /\ fResults[l].publishedDate.kind = "garbage"

\* C5, as claimed: a result is kept exactly when its publishedDate parses
\* to an instant strictly after last_updated.
C5_FilterKeepsEveryNewer ==
    fpc \in {"select", "done"} =>
        \A i \in 1..Len(fResults) :
            InSeq(fResults[i], fFiltered) <=>
                /\ DateParse(fResults[i].publishedDate) # Null
                /\ DateParse(fResults[i].publishedDate) > fLast

CountOfDay(results, day) ==
    Cardinality({i \in 1..Len(results) :
        /\ DateParse(results[i].publishedDate) # Null
        /\ results[i].publishedDate.day = day})

\* C6, as claimed: of the n filtered results of a calendar day the selection
\* passes on exactly min(n, 3), and it passes on nothing that was not
\* filtered.
C6_PerDateCap ==
    fpc = "done" =>
        /\ \A i \in 1..Len(fSelected) : InSeq(fSelected[i], fFiltered)
        /\ \A i \in 1..Len(fFiltered) :
             LET day == fFiltered[i].publishedDate.day
             IN CountOfDay(fSelected, day)
                    = Min(CountOfDay(fFiltered, day), MaxPerDate)

\* C8: a detail-extraction run whose search and scrape produce no usable
\* article is answered 500 with 'No articles found or scraped', makes no
\* LLM call and leaves event_details as it found it; GET and POST alike.
C8_NoArticlesFailsBeforeLLM ==
    \A r \in Runs :
        (DetailRun(r) /\ runs[r].calls.search = 1 /\ Len(runs[r].articles) = 0)
            => /\ Done(r)
               /\ runs[r].http = 500
               /\ runs[r].outcome = "No articles found or scraped"
               /\ runs[r].calls.llm = 0
               /\ event_details.exists = runs[r].startStore.exists
               /\ event_details.sources = runs[r].startStore.sources

\* C8 witness: a detail-extraction run that searched, tried to scrape the
\* pages it found, kept none of them and has answered.
C8_Witness ==
    \E r \in Runs :
        /\ DetailRun(r) /\ Done(r)
        /\ runs[r].calls.search = 1 /\ runs[r].calls.fetch > 0
        /\ Len(runs[r].articles) = 0
        /\ runs[r].method = "POST"

\* C4, as claimed: an update-detection run that found new articles and got
\* no valid update out of the LLM analysis is answered 500, never 200.
C4_AnalysisFailureIs500 ==
    \A r \in Runs :
        (UpdateRun(r) /\ Done(r) /\ Len(runs[r].filtered) > 0
            /\ runs[r].calls.llm = 1 /\ Len(runs[r].analysis.updates) = 0)
            => runs[r].http = 500

\* C7, as claimed: once a run has written last_updated, the value written is
\* the latest date among the updates it inserted, in whatever order the LLM
\* listed them.
C7_LastUpdatedIsLatestDate ==
    \A r \in Runs :
        (UpdateRun(r) /\ Succeeded(r) /\ runs[r].luWritten # Null)
            => runs[r].luWritten
                   = DateInstant(MaxOf(UpdateDates(runs[r].analysis.updates)))

\* C9, as claimed: on both endpoints and for GET and POST, a request without
\* the server secret is answered 401 and a request with the secret but no
\* event_id is answered 400, in both cases before any store access, search,
\* page fetch or LLM call.
C9_RejectedBeforeAnyCall ==
    \A r \in Runs :
        /\ (runs[r].kind # "none" /\ runs[r].api_key # Secret)
               => Done(r) /\ runs[r].http = 401 /\ runs[r].calls = NoCalls
        /\ (runs[r].kind # "none" /\ runs[r].api_key = Secret
                /\ runs[r].event_id = "")
               => Done(r) /\ runs[r].http = 400 /\ runs[r].calls = NoCalls

\* C10, as claimed: a lookup that finds no event row is answered 404 and a
\* lookup that fails for any other reason is answered 500.
C10_LookupNotFound404Failure500 ==
    \A r \in Runs :
        /\ runs[r].dbAnswer = "no_rows" => Done(r) /\ runs[r].http = 404
        /\ runs[r].dbAnswer = "failure" => Done(r) /\ runs[r].http = 500

\* C1, as claimed: when an update-detection run has succeeded and advanced
\* last_updated, a second run started after it, at the same instant and
\* given the same search results, when it answers 200, has found no new
\* articles and has left last_updated, status, sources and the update rows
\* as the first run left them.
C1_SecondRunChangesNothing ==
    \A r1, r2 \in Runs :
        (/\ UpdateRun(r1) /\ Succeeded(r1) /\ runs[r1].luWritten # Null
         /\ UpdateRun(r2) /\ Done(r2) /\ r1 \in runs[r2].after
         /\ runs[r2].http = 200
         /\ runs[r2].calls.search = 1
         /\ runs[r2].searchResults = runs[r1].searchResults
         /\ runs[r2].clock = runs[r1].clock)
            => /\ runs[r2].outcome = "no_new_articles"
               /\ StoreNow = runs[r2].startStore

\* C2, as claimed: a run that no other run overlaps never writes a
\* last_updated earlier than the one the event held just before the write.
C2_LastUpdatedNeverDecreases ==
    \A r \in Runs :
        (UpdateRun(r) /\ Succeeded(r) /\ Alone(r) /\ runs[r].luWritten # Null)
            => runs[r].luWritten >= LastUpdatedDate(runs[r].luBefore)

\* C3, as claimed: two runs on the same event that overlap in time never
\* both insert update rows for the same new article.
C3_NoDoubleInsert ==
    \A r1, r2 \in Runs :
        (/\ r1 # r2 /\ UpdateRun(r1) /\ UpdateRun(r2)
         /\ r1 \notin runs[r2].after /\ r2 \notin runs[r1].after
         /\ runs[r1].inserted > 0 /\ runs[r2].inserted > 0)
            => \A i \in 1..Len(runs[r1].llmInput) :
                   ~InSeq(runs[r1].llmInput[i], runs[r2].llmInput)

\* C11, as claimed: a run issues the cache invalidation call only once its
\* update rows are inserted, its event record is written and its source
\* list is written, and a run that ends otherwise than in success has not
\* issued it.
C11_InvalidationAfterWrites ==
    \A r \in Runs :
        /\ (UpdateRun(r) /\ runs[r].calls.revalidate > 0)
               => /\ runs[r].inserted > 0
                  /\ runs[r].luWritten # Null
                  /\ runs[r].srcWritten
        /\ (UpdateRun(r) /\ Done(r) /\ runs[r].outcome # "success")
               => runs[r].calls.revalidate = 0

\* C12: whatever subset of the required fields the parsed answer lacks, the
\* output has all five; a field that was missing holds the empty value of
\* its declared type (empty string for location and details, empty list
\* for accused, victims and timeline) and a field that was there is kept.
C12_RequiredFieldsFilled ==
    upc = "done" =>
        \A i \in 1..Len(requiredFields) :
            LET field == requiredFields[i]
            IN /\ uOut[field] # "absent"
               /\ uIn[field] = "absent" =>
                      uOut[field] = IF field \in {"location", "details"}
                                    THEN "empty_string" ELSE "empty_list"
               /\ uIn[field] # "absent" => uOut[field] = uIn[field]

\* C12 witness: an answer without victims and without location, with
\* details present, after the backfill.
C12_Witness ==
    /\ upc = "done"
    /\ uIn["victims"] = "absent" /\ uOut["victims"] = "empty_list"
    /\ uIn["location"] = "absent" /\ uOut["location"] = "empty_string"
    /\ uIn["details"] = "text"

\* C13, as claimed: no result whose link or displayLink is of a site of the
\* exclusion list is in the output of a search, whichever of the two search
\* functions ran and whatever the provider answered.
C13_NoExcludedDomainInOutput ==
    upc = "done" =>
        \A i \in 1..Len(uOut) :
            /\ uOut[i].host \notin
                   {"reddit.com", "old.reddit.com", "Twitter.com"}
            /\ uOut[i].displayLink \notin
                   {"reddit.com", "old.reddit.com", "youtube.com"}

\* C14, as claimed: a run that reaches its search while the provider
\* credentials are not set answers with an error and has sent no search
\* request.
C14_NoCredentialsIsAnError ==
    \A r \in Runs :
        (runs[r].kind # "none" /\ ~runs[r].credentials)
            => /\ Done(r)
               /\ runs[r].http = 500
               /\ runs[r].calls.search = 0

C16_EffectsAllOrNone ==
    \A r \in Runs :
        (runs[r].kind = "updates_status" /\ Done(r))
            => \/ /\ runs[r].inserted > 0
                  /\ runs[r].luWritten # Null
                  /\ runs[r].srcWritten
               \/ /\ runs[r].inserted = 0
                  /\ runs[r].luWritten = Null
                  /\ ~runs[r].srcWritten

\* a result of the run's search that the frontier filter must keep: dated,
\* not after the run's clock, strictly after the run's frontier
PassesFrontier(r, result) ==
    /\ result.publishedDate.kind \in {"iso", "text"}
    /\ Instant(result.publishedDate.day, result.publishedDate.tod)
           <= runs[r].clock
    /\ Instant(result.publishedDate.day, result.publishedDate.tod)
           > runs[r].lastUpdated

\* C17: an update-detection run whose search returned no result newer than
\* the frontier has answered 200 'no new articles', has fetched no page,
\* has not called the LLM and has left the store as it found it.
C17_EarlyExitBeforeFetchAndLLM ==
    \A r \in Runs :
        (/\ UpdateRun(r) /\ runs[r].calls.search > 0
         /\ \A i \in 1..Len(runs[r].searchResults) :
                ~PassesFrontier(r, runs[r].searchResults[i]))
            => /\ Done(r)
               /\ runs[r].http = 200
               /\ runs[r].outcome = "no_new_articles"
               /\ runs[r].calls.fetch = 0
               /\ runs[r].calls.llm = 0
               /\ runs[r].calls.revalidate = 0
               /\ StoreNow = runs[r].startStore

\* C17 witness: a run whose search returned results, none of them newer
\* than the frontier, and that has answered.
C17_Witness ==
    \E r \in Runs :
        /\ UpdateRun(r) /\ Done(r)
        /\ Len(runs[r].searchResults) > 1
        /\ runs[r].filtered = <<>>
        /\ runs[r].outcome = "no_new_articles"

\* the search result of run r that has the given link
ResultOfLink(r, link) ==
    CHOOSE result \in {runs[r].searchResults[i] :
                          i \in 1..Len(runs[r].searchResults)} :
        result.link = link

Undated(result) == result.publishedDate.kind \in {"missing", "garbage"}

Future(r, result) ==
    /\ result.publishedDate.kind \in {"iso", "text"}
    /\ Instant(result.publishedDate.day, result.publishedDate.tod)
           > runs[r].clock

\* C18: a search result without a publish date, with one that does not
\* parse or with one after the run's clock is in none of the run's filtered
\* results, selected results or pages fetched for the LLM.
C18_UndatedOrFutureNeverPasses ==
    \A r \in Runs :
        UpdateRun(r) =>
            /\ \A i \in 1..Len(runs[r].filtered) :
                   /\ ~Undated(runs[r].filtered[i])
                   /\ ~Future(r, runs[r].filtered[i])
            /\ \A i \in 1..Len(runs[r].selected) :
                   /\ ~Undated(runs[r].selected[i])
                   /\ ~Future(r, runs[r].selected[i])
            /\ \A i \in 1..Len(runs[r].llmInput) :
                   /\ ~Undated(ResultOfLink(r, runs[r].llmInput[i]))
                   /\ ~Future(r, ResultOfLink(r, runs[r].llmInput[i]))

\* C18 witness: a run that handed pages to the LLM after a search that also
\* returned a result dated after the clock (and after the frontier), one
\* without a date and one whose date does not parse.
C18_Witness ==
    \E r \in Runs :
        /\ UpdateRun(r) /\ runs[r].calls.llm > 0
        /\ Len(runs[r].llmInput) > 0
        /\ \E i, j, k \in 1..Len(runs[r].searchResults) :
             /\ Future(r, runs[r].searchResults[i])
             /\ runs[r].searchResults[j].publishedDate.kind = "missing"
             /\ runs[r].searchResults[k].publishedDate.kind = "garbage"

\* the entries of the LLM's list that have a date, a title and a description
ValidEntries(items) ==
    SelectSeq(items,
        LAMBDA u: u.date # 0 /\ u.title # "" /\ u.description # "")

\* C19: no step modifies or deletes an event_updates row that exists, and
\* at the step in which an update-detection run answers success the rows
\* added since it started are one per valid entry of the LLM's list, in the
\* list's order, each with the entry's date, title and description.
C19_OneRowPerValidEntryAppendOnly ==
    [][/\ Len(event_updates') >= Len(event_updates)
       /\ SubSeq(event_updates', 1, Len(event_updates)) = event_updates
       /\ \A r \in Runs :
            (/\ runs'[r].kind \in UpdateKinds
             /\ runs[r].pc # "done"
             /\ runs'[r].pc = "done" /\ runs'[r].outcome = "success")
                => LET valid == ValidEntries(runs'[r].llmItems)
                       before == runs'[r].startStore.rows
                   IN /\ Len(event_updates') = before + Len(valid)
                      /\ runs'[r].inserted = Len(valid)
                      /\ \A i \in 1..Len(valid) :
                           event_updates'[before + i] =
                               [event_id |-> 1, title |-> valid[i].title,
                                description |-> valid[i].description,
                                update_date |-> valid[i].date]
      ]_vars

\* C19 witness: a successful run on an event that had a row already, whose
\* LLM list held one valid and one invalid entry: one row was added.
C19_Witness ==
    \E r \in Runs :
        /\ UpdateRun(r) /\ Succeeded(r)
        /\ Len(runs[r].llmItems) = 2
        /\ runs[r].inserted = 1
        /\ runs[r].startStore.rows = 1
        /\ Len(event_updates) = 2

\* C20, as claimed: after a successful run of the status route on an event
\* that has a details row, the stored source list holds every URL it held
\* when the run started and every URL of the run's selected articles, and
\* holds no URL twice.
C20_SourcesMergedWithoutDuplicates ==
    \A r \in Runs :
        (/\ runs[r].kind = "updates_status" /\ Succeeded(r)
         /\ runs[r].startStore.exists)
            => /\ \A i \in 1..Len(runs[r].startStore.sources) :
                      InSeq(runs[r].startStore.sources[i],
                            event_details.sources)
               /\ \A i \in 1..Len(runs[r].llmInput) :
                      InSeq(runs[r].llmInput[i], event_details.sources)
               /\ \A i, j \in 1..Len(event_details.sources) :
                      i # j => event_details.sources[i]
                                   # event_details.sources[j]

\* C21: a detail-extraction run whose LLM answer holds no JSON object, or
\* whose slice from the first '{' to the last '}' does not parse, has
\* answered 500 and has written neither event_details nor last_updated.
C21_ParseFailureWritesNothing ==
    \A r \in Runs :
        (/\ DetailRun(r)
         /\ runs[r].llmAnswer
                \in {"no_json", "open_only", "close_only", "bad_json"})
            => /\ Done(r)
               /\ runs[r].http = 500
               /\ event_details.exists = runs[r].startStore.exists
               /\ event_details.sources = runs[r].startStore.sources
               /\ events.last_updated = runs[r].startStore.last_updated

\* C21 witness: a run on an event that has details already, whose LLM
\* answer held braces around text that does not parse, and that answered.
C21_Witness ==
    \E r \in Runs :
        /\ DetailRun(r) /\ Done(r)
        /\ runs[r].llmAnswer = "bad_json"
        /\ runs[r].startStore.exists
        /\ Len(runs[r].articles) > 0

\* C22, as claimed: a detail-extraction run leaves the event's last_updated
\* and status as they were when it started.
C22_DetailRunLeavesEventUntouched ==
    \A r \in Runs :
        DetailRun(r)
            => /\ events.last_updated = runs[r].startStore.last_updated
               /\ events.status = runs[r].startStore.status

\* C23, as claimed: every run that has started ends with a response, also
\* when a remote service never answers.
C23_EveryRunAnswers ==
    \A r \in Runs : (runs[r].pc # "idle") ~> Done(r)

\* C24: in a detail-extraction run whose search was made, every URL that
\* was to be scraped has its own outcome whatever the outcomes of the
\* others, and the articles handed to the LLM stage are, in order, exactly
\* the URLs whose fetch succeeded with content longer than 100 characters.
C24_ArticlesAreTheSuccessfulFetches ==
    \A r \in Runs :
        (DetailRun(r) /\ runs[r].calls.search > 0)
            => LET urls == articlesToScrape(runs[r].searchResults)
                   got == runs[r].articles
                   good(i) == /\ runs[r].scraped[i].status = "ok"
                              /\ runs[r].scraped[i].length > 100
               IN /\ runs[r].calls.fetch = Len(urls)
                  /\ DOMAIN runs[r].scraped = 1..Len(urls)
                  /\ Len(got) = Cardinality({i \in 1..Len(urls) : good(i)})
                  /\ \A i \in 1..Len(urls) :
                        good(i) <=> InSeq(urls[i].link, got)
                  /\ \A i, j \in 1..Len(got) :
                        i < j => \E k, l \in 1..Len(urls) :
                                    /\ k < l
                                    /\ urls[k].link = got[i]
                                    /\ urls[l].link = got[j]

\* C24 witness: the first URL's fetch timed out and the second URL's
\* article, of more than 100 characters, reached the LLM stage.
C24_Witness ==
    \E r \in Runs :
        /\ DetailRun(r) /\ runs[r].calls.llm > 0
        /\ Len(runs[r].scraped) = 2
        /\ runs[r].scraped[1].status = "timeout"
        /\ runs[r].scraped[2].length = 101
        /\ runs[r].articles = <<runs[r].searchResults[2].link>>

\* C25: when the paginated search returns, every page was requested once,
\* in order, whatever pages failed, and the results are those of all the
\* pages that did not fail, in page order, passed through the duplicate
\* and exclusion filter.
C25_FailedPageSkipsOnlyItself ==
    (upc = "done" /\ DOMAIN uIn = 1..3 /\ "requested" \in DOMAIN uOut)
        => LET good(p) == IF uIn[p].kind = "items" THEN uIn[p].items
                          ELSE <<>>
               all == good(1) \o good(2) \o good(3)
           IN /\ uOut.requested = <<1, 2, 3>>
              /\ uOut.allResults = all
              /\ uOut.results = filteredResults(all)

\* C25 witness: the first page failed with an HTML body, the second threw,
\* the third answered items, and the search returned the third's results.
C25_Witness ==
    /\ upc = "done" /\ DOMAIN uIn = 1..3 /\ "requested" \in DOMAIN uOut
    /\ uIn[1].kind = "html"
    /\ uIn[2].kind = "threw"
    /\ uIn[3].kind = "items"
    /\ Len(uOut.results) > 0
    /\ uOut.results = filteredResults(uIn[3].items)

\* C26: once an update-detection run with a non-empty selection has gone
\* past the analysis, every selected result was passed to the LLM, in
\* order, with empty content where its page fetch failed or timed out, and
\* the LLM was called exactly once.
C26_EverySelectedResultReachesTheLLM ==
    \A r \in Runs :
        (/\ UpdateRun(r)
         /\ Len(runs[r].selected) > 0
         /\ runs[r].pc \in {"insert", "update_event", "read_details",
                            "write_details", "revalidate", "done"})
            => /\ runs[r].calls.llm = 1
               /\ runs[r].llmInput = Links(runs[r].selected)
               /\ Len(runs[r].fullContent) = Len(runs[r].selected)
               /\ \A i \in 1..Len(runs[r].selected) :
                     (runs[r].pageFetch[i] # "page")
                         <=> (runs[r].fullContent[i] = "")

\* C26 witness: two results were selected, the first one's page fetch timed
\* out, and the LLM was called once with both.
C26_Witness ==
    \E r \in Runs :
        /\ UpdateRun(r) /\ Succeeded(r)
        /\ Len(runs[r].selected) = 2
        /\ runs[r].pageFetch[1] = "timeout"
        /\ runs[r].fullContent = <<"", "text">>
        /\ Len(runs[r].llmInput) = 2
        /\ runs[r].calls.llm = 1

\* C27, as claimed: after a successful run of the status route every row
\* it inserted carries the calendar date of one of the results it selected.
C27_RowDatesAreSelectedDates ==
    \A r \in Runs :
        (runs[r].kind = "updates_status" /\ Succeeded(r))
            => \A i \in (runs[r].startStore.rows + 1)..Len(event_updates) :
                  event_updates[i].update_date
                      \in DaysOfResults(runs[r].selected)

\* C28: an update-detection run that answered 'no new updates', the
\* extraction failure or the insert error has left last_updated, status,
\* the sources and the number of update rows as they were when it started.
C28_FailedRunLeavesStoreUntouched ==
    \A r \in Runs :
        (/\ UpdateRun(r) /\ Done(r)
         /\ runs[r].outcome \in {"no_new_articles", "analysis_failed",
                                 "no_updates_after_analysis",
                                 "insert_failed"})
            => /\ StoreNow = runs[r].startStore
               /\ runs[r].inserted = 0
               /\ runs[r].luWritten = Null
               /\ ~runs[r].srcWritten

\* C28 witness: a run on an event with details, sources and an update row
\* got a valid analysis, and its insert failed.
C28_Witness ==
    \E r \in Runs :
        /\ UpdateRun(r) /\ Done(r)
        /\ runs[r].outcome = "insert_failed"
        /\ Len(runs[r].analysis.updates) > 0
        /\ runs[r].startStore.rows > 0
        /\ runs[r].startStore.exists

\* C29, as claimed: the status of the event is always 'Justice' or
\* 'Injustice', whatever the LLM answered.
C29_StatusIsJusticeOrInjustice ==
    events.status \in {"Justice", "Injustice"}

\* C30, as claimed: when two runs of the status route have both answered
\* success, each having read the stored sources and written its merge
\* without a store error, the stored list holds the URLs of the articles
\* selected by both.
C30_ConcurrentMergesKeepBoth ==
    \A r, q \in Runs :
        (/\ r # q
         /\ runs[r].kind = "updates_status" /\ Succeeded(r)
         /\ runs[q].kind = "updates_status" /\ Succeeded(q)
         /\ runs[r].srcRead /\ runs[r].srcWritten
         /\ runs[q].srcRead /\ runs[q].srcWritten)
            => \A i \in 1..Len(runs[r].llmInput) :
                  InSeq(runs[r].llmInput[i], event_details.sources)

====
